---- MODULE Spec2Model ----
(***************************************************************************)
(* Model of the prompt manager's A/B assignment                            *)
(* (src/src/prompts/prompt_manager.py) and of the request telemetry of the *)
(* monitor (src/src/monitoring/monitor.py), both backed by a Redis store.  *)
(*                                                                         *)
(* Conventions: a Python None / a missing Redis key is the empty tuple     *)
(* <<>>, a present value x is <<x>>.  Fractions are kept as integers:      *)
(* traffic_split and random.random() in hundredths, money in micro-USD.    *)
(***************************************************************************)
EXTENDS Integers, Sequences, FiniteSets, TLC

\* ------------------------------------------------------------------ bounds
MaxVersions == 2
MaxTicks == 2
MaxNow == 72
MaxIngests == 2
MaxFailures == 1
MaxWorkers == 2
MaxSamples == 3
MaxRamp == 20

\* ------------------------------------------------------- prompt manager
Templates == {"t1"}

\* PromptStatus
DRAFT == "draft"
ACTIVE == "active"
TESTING == "testing"
DEPRECATED == "deprecated"
Absent == "absent"      \* the id is not a key of the dict / of Redis

\* a prompt id embeds its template name and a creation timestamp
PromptIds == Templates \X (1 .. MaxVersions)
EmptyId == <<"">>
ArgIds == PromptIds \cup {EmptyId}

\* user_id arguments: None, the empty string, a real id
PyNone == "<None>"
UserNone == PyNone
UserArgs == {UserNone, "", "u1"}
NonEmptyUsers == {"u1"}

\* traffic_split arguments, in hundredths (0.5 is 50)
Splits == {0, 50, 100, 150}
\* values of hash(user_id) % 100 and of random.random(), in hundredths
HashVals == {0, 50, 99}
RandomDraws == {0, 50, 99}

VARIABLES prompts, nextSerial, abTest, userHash, abEnabled, assigned, lastStart, ret

\* the monitor: the clock, the Redis keys request:<id>, requests:<day> and
\* model_requests:<model>:<day>, and the _save_request calls in progress
VARIABLES now, ticks, ingests, failures, requests, dayList, modelList, pc, wreq

mvars == <<now, ticks, ingests, failures, requests, dayList, modelList, pc, wreq>>

pvars == <<prompts, nextSerial, abTest, userHash, abEnabled, assigned, lastStart>>
vars == <<prompts, nextSerial, abTest, userHash, abEnabled, assigned, lastStart, ret,
          now, ticks, ingests, failures, requests, dayList, modelList, pc, wreq>>

TemplateOf(id) == id[1]

\* PromptManager.get_prompt: the prompt (its id) or None
GetPrompt(ps, id) ==
    IF id \in PromptIds /\ ps[id] # Absent THEN <<id>> ELSE <<>>

\* PromptManager.get_active_prompt: first ACTIVE prompt of the template in
\* dict (insertion) order, or None
GetActivePromptAnyStatus(ps, t) ==
    LET act == {k \in 1 .. MaxVersions : ps[<<t, k>>] # Absent}
    IN  IF act = {} THEN <<>>
        ELSE <<(<<t, CHOOSE k \in act : \A j \in act : k <= j>>)>>

GetActivePrompt(ps, t) ==
    LET act == {k \in 1 .. MaxVersions : ps[<<t, k>>] = ACTIVE}
    IN  IF act = {} THEN <<>>
        ELSE <<(<<t, CHOOSE k \in act : \A j \in act : k <= j>>)>>

\* the value start_ab_test stores under ab_test:<template_name>; old is the
\* value the key held before (setex overwrites it)
AbTestMerged(old, a, b, split) ==
    IF old = <<>>
    THEN <<[prompt_a |-> a, prompt_b |-> b, traffic_split |-> split, active |-> TRUE]>>
    ELSE <<[prompt_a |-> old[1].prompt_a, prompt_b |-> b,
            traffic_split |-> split, active |-> TRUE]>>

AbTestValue(old, a, b, split) ==
    <<[prompt_a |-> a, prompt_b |-> b, traffic_split |-> split, active |-> TRUE]>>

\* user_hash < traffic_split * 100, random.random() < traffic_split
UseVersionBInclusive(draw, split) == draw <= split

UseVersionB(draw, split) == draw < split

\* if user_id:
Truthy(u) == u \notin {UserNone, ""}

PInit ==
    /\ prompts = [id \in PromptIds |-> Absent]
    /\ nextSerial = [t \in Templates |-> 1]
    /\ abTest = [t \in Templates |-> <<>>]
    /\ userHash \in [NonEmptyUsers -> HashVals]
    /\ abEnabled \in BOOLEAN
    /\ assigned = <<>>
    /\ lastStart = [t \in Templates |-> <<>>]

\* create_prompt: a new DRAFT prompt under a fresh id
CreatePrompt(t) ==
    /\ nextSerial[t] <= MaxVersions
    /\ prompts' = [prompts EXCEPT ![<<t, nextSerial[t]>>] = DRAFT]
    /\ nextSerial' = [nextSerial EXCEPT ![t] = @ + 1]
    /\ ret' = [op |-> "create_prompt", prompt_id |-> <<t, nextSerial[t]>>]
    /\ UNCHANGED <<abTest, userHash, abEnabled, assigned, lastStart>>
    /\ UNCHANGED mvars

\* the statuses activate_prompt leaves behind: the ACTIVE prompts of the
\* template are deprecated, then this one is made ACTIVE
ActivateStatusKeepOthers(ps, id) == [ps EXCEPT ![id] = ACTIVE]

ActivateStatus(ps, id) ==
    [p \in PromptIds |->
        IF p = id THEN ACTIVE
        ELSE IF TemplateOf(p) = TemplateOf(id) /\ ps[p] = ACTIVE
             THEN DEPRECATED ELSE ps[p]]

\* activate_prompt: deprecate the ACTIVE prompts of the template, then
\* activate this one
ActivatePrompt(id) ==
    /\ IF prompts[id] = Absent
       THEN /\ ret' = [op |-> "activate_prompt", prompt_id |-> id, result |-> FALSE]
            /\ UNCHANGED prompts
       ELSE /\ prompts' = ActivateStatus(prompts, id)
            /\ ret' = [op |-> "activate_prompt", prompt_id |-> id, result |-> TRUE]
    /\ UNCHANGED <<nextSerial, abTest, userHash, abEnabled, assigned, lastStart>>
    /\ UNCHANGED mvars

\* start_ab_test: both prompts are set to TESTING
MarkTestingFirstOnly(ps, a, b) == [ps EXCEPT ![a] = TESTING]

MarkTesting(ps, a, b) == [ps EXCEPT ![a] = TESTING, ![b] = TESTING]

\* the statuses start_ab_test leaves behind: nothing is touched when A/B
\* testing is disabled or one of the prompts is not found
StartAbTestStatusEager(ps, enabled, a, b) ==
    IF ~enabled THEN ps
    ELSE [p \in PromptIds |->
            IF p \in {a, b} /\ ps[p] # Absent THEN TESTING ELSE ps[p]]

StartAbTestStatus(ps, enabled, a, b) ==
    IF ~enabled \/ GetPrompt(ps, a) = <<>> \/ GetPrompt(ps, b) = <<>>
    THEN ps
    ELSE MarkTesting(ps, a, b)

\* start_ab_test; storeOk = FALSE is a Redis failure of the setex of the
\* configuration, which the method does not catch
StartAbTest(t, a, b, split) ==
    LET invalid == split < 0 \/ split > 100 \/ a = EmptyId \/ b = EmptyId IN
    /\ UNCHANGED mvars
    /\ IF ~abEnabled \/ GetPrompt(prompts, a) = <<>> \/ GetPrompt(prompts, b) = <<>>
       THEN /\ ret' = [op |-> "start_ab_test", name |-> t, invalid |-> invalid,
                       result |-> "False", stored |-> FALSE, replaced |-> FALSE]
            /\ prompts' = StartAbTestStatus(prompts, abEnabled, a, b)
            /\ UNCHANGED <<nextSerial, abTest, userHash, abEnabled, assigned, lastStart>>
       ELSE /\ prompts' = StartAbTestStatus(prompts, abEnabled, a, b)
            /\ \E storeOk \in BOOLEAN :
               IF storeOk
               THEN /\ abTest' = [abTest EXCEPT ![t] = AbTestValue(abTest[t], a, b, split)]
                    /\ lastStart' = [lastStart EXCEPT ![t] =
                           <<[prompt_a |-> a, prompt_b |-> b,
                              traffic_split |-> split, active |-> TRUE]>>]
                    /\ assigned' = IF assigned # <<>> /\ assigned[1].name = t
                                   THEN <<>> ELSE assigned
                    /\ ret' = [op |-> "start_ab_test", name |-> t, invalid |-> invalid,
                               result |-> "True", stored |-> TRUE,
                               replaced |-> abTest[t] # <<>> /\ abTest'[t] # abTest[t],
                               prompt_a |-> a, prompt_b |-> b, traffic_split |-> split,
                               before |-> <<prompts[a], prompts[b]>>]
               ELSE /\ ret' = [op |-> "start_ab_test", name |-> t, invalid |-> invalid,
                               result |-> "RedisError", stored |-> FALSE,
                               replaced |-> FALSE]
                    /\ UNCHANGED <<abTest, assigned, lastStart>>
            /\ UNCHANGED <<nextSerial, userHash, abEnabled>>

\* get_ab_test_prompt; draw is the value of random.random() of this call
GetAbTestPrompt(t, u, draw) ==
    LET cfg == abTest[t] IN
    /\ IF cfg = <<>> \/ ~cfg[1].active
       THEN /\ ret' = [op |-> "get_ab_test_prompt", name |-> t, user |-> u,
                       branch |-> "fallback",
                       prompt_id |-> GetActivePrompt(prompts, t),
                       prompt |-> GetActivePrompt(prompts, t)]
            /\ UNCHANGED assigned
       ELSE LET use_version_b ==
                    IF Truthy(u) THEN UseVersionB(userHash[u], cfg[1].traffic_split)
                    ELSE UseVersionB(draw, cfg[1].traffic_split)
                prompt_id == IF use_version_b THEN cfg[1].prompt_b ELSE cfg[1].prompt_a
            IN  /\ ret' = [op |-> "get_ab_test_prompt", name |-> t, user |-> u,
                           branch |-> "test", prompt_id |-> <<prompt_id>>,
                           prompt |-> GetPrompt(prompts, prompt_id)]
                /\ assigned' = IF Truthy(u)
                               THEN <<[name |-> t, user |-> u, prompt_id |-> prompt_id]>>
                               ELSE assigned
    /\ UNCHANGED <<prompts, nextSerial, abTest, userHash, abEnabled, lastStart>>
    /\ UNCHANGED mvars

\* delete_prompt: removes the prompt from Redis and from the dict; the A/B
\* configurations are not touched
DeletePrompt(id) ==
    /\ IF prompts[id] = Absent
       THEN /\ ret' = [op |-> "delete_prompt", prompt_id |-> id, result |-> FALSE]
            /\ UNCHANGED <<prompts, assigned>>
       ELSE /\ prompts' = [prompts EXCEPT ![id] = Absent]
            /\ assigned' = <<>>
            /\ ret' = [op |-> "delete_prompt", prompt_id |-> id, result |-> TRUE]
    /\ UNCHANGED <<nextSerial, abTest, userHash, abEnabled, lastStart>>
    /\ UNCHANGED mvars

\* Redis drops ab_test:<t> when its 86400 s are over
ExpireAbTest(t) ==
    /\ abTest[t] # <<>>
    /\ abTest' = [abTest EXCEPT ![t] = <<>>]
    /\ assigned' = IF assigned # <<>> /\ assigned[1].name = t THEN <<>> ELSE assigned
    /\ lastStart' = [lastStart EXCEPT ![t] = <<>>]
    /\ ret' = [op |-> "expire", name |-> t]
    /\ UNCHANGED <<prompts, nextSerial, userHash, abEnabled>>
    /\ UNCHANGED mvars

\* a new process of the application: PromptManager() loads the prompts back
\* from Redis, and the interpreter salts hash() of str anew
Restart(h) ==
    /\ userHash' = h
    /\ ret' = [op |-> "restart"]
    /\ UNCHANGED <<prompts, nextSerial, abTest, abEnabled, assigned, lastStart>>
    /\ UNCHANGED mvars

\* ------------------------------------------------------------- monitor
\* time is counted in hours; a calendar day is 24 of them
HoursPerDay == 24
\* setex(request_key, 86400, ...) and expire(date_key, 2592000), in hours
RequestTTL == 24
IndexTTL == 720
NoExpiry == -1          \* a key without a time to live
StartNow == 47          \* the clock at construction: 23:00 of day 1
\* settings.cost_alert_threshold = 100.0 USD, in micro-USD
CostAlertThreshold == 100000000

Ids == {"r1", "r2"}
Models == {"gpt-4", "gpt-3.5-turbo", "other"}
Days == 0 .. (MaxNow \div HoursPerDay)
Workers == 1 .. MaxWorkers
TickSteps == {1, 23}
NoFail == 6             \* no store operation of _save_request fails
\* position of a _save_request call: 0 not begun, 1 .. 5 the store operation
\* it is about to issue, SaveDone after the last one, SaveFailed after the
\* except branch
SaveDone == 6
SaveFailed == 7

\* timestamp.strftime('%Y-%m-%d')
Day(t) == t \div HoursPerDay

\* MODEL_CONFIGS[...]["cost_per_1k_tokens"] in micro-USD; get_model_config
\* falls back to the entry of gpt-4
GetModelConfigNoDefault(m) ==
    CASE m = "gpt-4" -> [cost_per_1k_tokens |-> 30000]
      [] m = "gpt-3.5-turbo" -> [cost_per_1k_tokens |-> 2000]
      [] m = "claude-3-opus" -> [cost_per_1k_tokens |-> 15000]
      [] m = "claude-3-sonnet" -> [cost_per_1k_tokens |-> 3000]
      [] OTHER -> [cost_per_1k_tokens |-> 0]

GetModelConfig(m) ==
    CASE m = "gpt-4" -> [cost_per_1k_tokens |-> 30000]
      [] m = "gpt-3.5-turbo" -> [cost_per_1k_tokens |-> 2000]
      [] m = "claude-3-opus" -> [cost_per_1k_tokens |-> 15000]
      [] m = "claude-3-sonnet" -> [cost_per_1k_tokens |-> 3000]
      [] OTHER -> [cost_per_1k_tokens |-> 30000]

\* calculate_cost; the token counts of the inputs are multiples of 1000
CalculateCost(m, input_tokens, output_tokens) ==
    ((input_tokens + output_tokens) \div 1000) * GetModelConfig(m).cost_per_1k_tokens

\* count_tokens: a text is given by the number of tokens its encoding has
CountTokens(text) == text.tokens

\* arguments of log_request
LogInputs == {
    [model_name |-> "gpt-4", model_version |-> "latest",
     prompt |-> [tokens |-> 2000000], response |-> [tokens |-> 0],
     latency_ms |-> 100, success |-> TRUE, error_message |-> PyNone,
     prompt_id |-> PyNone, user_id |-> "u1", metadata |-> "plain"],
    [model_name |-> "gpt-3.5-turbo", model_version |-> "latest",
     prompt |-> [tokens |-> 25000000], response |-> [tokens |-> 25000000],
     latency_ms |-> 200, success |-> FALSE, error_message |-> "timeout",
     prompt_id |-> PyNone, user_id |-> PyNone, metadata |-> PyNone],
    [model_name |-> "other", model_version |-> "unknown",
     prompt |-> [tokens |-> 0], response |-> [tokens |-> 0],
     latency_ms |-> 300, success |-> FALSE, error_message |-> PyNone,
     prompt_id |-> PyNone, user_id |-> PyNone, metadata |-> "tuple"]}

\* the LLMRequest log_request builds at time t (metadata or {})
MakeRequest(id, inp, t) ==
    LET input_tokens == CountTokens(inp.prompt)
        output_tokens == IF inp.response.tokens # 0 THEN CountTokens(inp.response) ELSE 0
    IN  [request_id |-> id, model_name |-> inp.model_name,
         model_version |-> inp.model_version, prompt_id |-> inp.prompt_id,
         user_id |-> inp.user_id, timestamp |-> t,
         input_tokens |-> input_tokens, output_tokens |-> output_tokens,
         latency_ms |-> inp.latency_ms,
         cost_usd |-> CalculateCost(inp.model_name, input_tokens, output_tokens),
         success |-> inp.success, error_message |-> inp.error_message,
         metadata |-> IF inp.metadata = PyNone THEN "empty" ELSE inp.metadata]

\* json.dumps(asdict(request), default=str) read back by json.loads: the
\* datetime t is written as the string str(t), here <<"str", t>>, and a tuple
\* comes back as a list; metadata is given by its kind: "empty" {}, "plain"
\* (string keys, JSON values), "tuple" (a tuple among the values), "list"
JsonDictNoError(request) ==
    [request EXCEPT !.timestamp = <<"str", @>>,
                    !.metadata = IF @ = "tuple" THEN "list" ELSE @,
                    !.error_message = PyNone]

JsonDict(request) ==
    [request EXCEPT !.timestamp = <<"str", @>>,
                    !.metadata = IF @ = "tuple" THEN "list" ELSE @]

\* datetime.fromisoformat of a stored timestamp
FromIsoformat(s) == s[2]

\* the three kinds of keys, as one record
Store == [requests |-> requests, dayList |-> dayList, modelList |-> modelList]

EmptyList == [items |-> <<>>, exp |-> NoExpiry]

\* redis setex of request:<id>
Setex(reqs, id, ttl, value, t) ==
    [reqs EXCEPT ![id] = <<[data |-> value, exp |-> t + ttl]>>]

\* redis lpush: the new element becomes the head of the list
LpushAtTail(lst, id) == [lst EXCEPT !.items = @ \o <<id>>]

LpushOverwrite(lst, id) == [lst EXCEPT !.items = <<id>>]

Lpush(lst, id) == [lst EXCEPT !.items = <<id>> \o @]

\* redis expire: sets the time to live of an existing key
ExpireNever(lst, ttl, t) == lst

ExpireWithinHour(lst, ttl, t) ==
    IF lst.items = <<>> THEN lst ELSE [lst EXCEPT !.exp = t + 1]

Expire(lst, ttl, t) ==
    IF lst.items = <<>> THEN lst ELSE [lst EXCEPT !.exp = t + ttl]

\* redis get of request:<id>: the stored value or None
Get(reqs, id) == IF reqs[id] = <<>> THEN <<>> ELSE <<reqs[id][1].data>>

\* redis lrange(key, 0, -1) of a day list, of a (model, day) list
Lrange(S, m, d) ==
    IF d \notin Days THEN <<>>
    ELSE IF m = PyNone THEN S.dayList[d].items
    ELSE IF m \in Models THEN S.modelList[<<m, d>>].items
    ELSE <<>>

\* the k-th store operation of _save_request, carried out at time t
StoreStepNoModelList(S, k, request, t) ==
    LET d == Day(request.timestamp)
    IN  CASE k = 1 -> [S EXCEPT !.requests =
                          Setex(@, request.request_id, RequestTTL, JsonDict(request), t)]
          [] k = 2 -> [S EXCEPT !.dayList[d] = Lpush(@, request.request_id)]
          [] k = 3 -> [S EXCEPT !.dayList[d] = Expire(@, IndexTTL, t)]
          [] OTHER -> S

StoreStep(S, k, request, t) ==
    LET d == Day(request.timestamp)
        mk == <<request.model_name, d>>
    IN  CASE k = 1 -> [S EXCEPT !.requests =
                          Setex(@, request.request_id, RequestTTL, JsonDict(request), t)]
          [] k = 2 -> [S EXCEPT !.dayList[d] = Lpush(@, request.request_id)]
          [] k = 3 -> [S EXCEPT !.dayList[d] = Expire(@, IndexTTL, t)]
          [] k = 4 -> [S EXCEPT !.modelList[mk] = Lpush(@, request.request_id)]
          [] k = 5 -> [S EXCEPT !.modelList[mk] = Expire(@, IndexTTL, t)]

\* _save_request run to its end at time t: the operations before the one
\* that fails (failAt) are carried out, the exception is caught and logged
RECURSIVE SaveFrom(_, _, _, _, _)
SaveFrom(S, k, request, t, failAt) ==
    IF k >= failAt \/ k > 5 THEN S
    ELSE SaveFrom(StoreStep(S, k, request, t), k + 1, request, t, failAt)

SaveRequest(S, request, t, failAt) == SaveFrom(S, 1, request, t, failAt)

\* what Redis holds at time t: keys whose time to live is over are gone
Purge(S, t) ==
    LET dead(l) == l.exp # NoExpiry /\ l.exp <= t IN
    [requests |-> [i \in Ids |->
                     IF S.requests[i] # <<>> /\ S.requests[i][1].exp <= t
                     THEN <<>> ELSE S.requests[i]],
     dayList |-> [d \in Days |-> IF dead(S.dayList[d]) THEN EmptyList ELSE S.dayList[d]],
     modelList |-> [k \in Models \X Days |->
                     IF dead(S.modelList[k]) THEN EmptyList ELSE S.modelList[k]]]

MInit ==
    /\ now = StartNow
    /\ ticks = 0
    /\ ingests = 0
    /\ failures = 0
    /\ requests = [i \in Ids |-> <<>>]
    /\ dayList = [d \in Days |-> EmptyList]
    /\ modelList = [k \in Models \X Days |-> EmptyList]
    /\ pc = [w \in Workers |-> 0]
    /\ wreq = [w \in Workers |-> <<>>]

SetStore(S) ==
    /\ requests' = S.requests
    /\ dayList' = S.dayList
    /\ modelList' = S.modelList

\* the clock advances; Redis drops the keys whose time is over
Tick(d) ==
    /\ ticks < MaxTicks
    /\ now + d <= MaxNow
    /\ now' = now + d
    /\ ticks' = ticks + 1
    /\ SetStore(Purge(Store, now + d))
    /\ ret' = [op |-> "tick"]
    /\ UNCHANGED <<ingests, failures, pc, wreq>>
    /\ UNCHANGED pvars

\* log_request, with _save_request run to its end: the request is returned
\* to the caller whether or not a store operation failed
LogRequest(id, inp, failAt) ==
    /\ ingests < MaxIngests
    /\ failAt # NoFail => failures < MaxFailures
    /\ ingests' = ingests + 1
    /\ failures' = IF failAt # NoFail THEN failures + 1 ELSE failures
    /\ SetStore(SaveRequest(Store, MakeRequest(id, inp, now), now, failAt))
    /\ ret' = [op |-> "log_request", request |-> MakeRequest(id, inp, now),
               failAt |-> failAt, outcome |-> "returned"]
    /\ UNCHANGED <<now, ticks, pc, wreq>>
    /\ UNCHANGED pvars

\* concurrent callers of log_request: the request is built (timestamp =
\* datetime.now()), then _save_request issues its store operations one by one
BeginSave(w, id, inp) ==
    /\ pc[w] = 0
    /\ wreq' = [wreq EXCEPT ![w] = <<MakeRequest(id, inp, now)>>]
    /\ pc' = [pc EXCEPT ![w] = 1]
    /\ UNCHANGED <<now, ticks, ingests, failures, requests, dayList, modelList, ret>>
    /\ UNCHANGED pvars

SaveStep(w) ==
    /\ pc[w] \in 1 .. 5
    /\ SetStore(StoreStep(Store, pc[w], wreq[w][1], now))
    /\ pc' = [pc EXCEPT ![w] = @ + 1]
    /\ UNCHANGED <<now, ticks, ingests, failures, wreq, ret>>
    /\ UNCHANGED pvars

\* the store operation raises: except Exception logs it and the call returns
SaveFail(w) ==
    /\ pc[w] \in 1 .. 5
    /\ failures < MaxFailures
    /\ failures' = failures + 1
    /\ pc' = [pc EXCEPT ![w] = SaveFailed]
    /\ UNCHANGED <<now, ticks, ingests, requests, dayList, modelList, wreq, ret>>
    /\ UNCHANGED pvars

\* ---------------------------------------------------------- aggregation
NoDate == -1            \* start_date / end_date not given

\* a quotient n / d is kept as the pair <<n, d>>; 0.0 is <<0, 1>>
Zero == <<0, 1>>

\* the days whose lists a scan reads: current_date = start, then
\* current_date += timedelta(days=1) while current_date <= end
RECURSIVE ScanDays(_, _)
ScanDays(current, end) ==
    IF current <= end
    THEN <<Day(current)>> \o ScanDays(current + HoursPerDay, end)
    ELSE <<>>

\* the request ids the scan enumerates, day after day
RECURSIVE ScanIds(_, _, _)
ScanIds(S, m, days) ==
    IF days = <<>> THEN <<>>
    ELSE Lrange(S, m, Head(days)) \o ScanIds(S, m, Tail(days))

\* if request_data:
FoundAlways(data) == TRUE

Found(data) == data # <<>>

\* the loop body of get_cost_metrics over the enumerated ids; json.loads of
\* None is a TypeError (fault)
RECURSIVE CostFold(_, _, _)
CostFold(S, ids, acc) ==
    IF ids = <<>> THEN acc
    ELSE LET data == Get(S.requests, Head(ids))
             next == IF ~Found(data) THEN acc
                     ELSE IF data = <<>> THEN [acc EXCEPT !.fault = TRUE]
                     ELSE [acc EXCEPT
                             !.total_cost = @ + data[1].cost_usd,
                             !.total_requests = @ + 1,
                             !.total_tokens = @ + data[1].input_tokens
                                                + data[1].output_tokens]
         IN  CostFold(S, Tail(ids), next)

\* total / count if count > 0 else 0.0
RateUnguarded(total, count) == <<total, count>>

Rate(total, count) == IF count > 0 THEN <<total, count>> ELSE Zero

\* get_cost_metrics(model_name, start_date, end_date) called at time t
GetCostMetrics(S, t, m, start_date, end_date) ==
    LET start == IF start_date = NoDate THEN t - HoursPerDay ELSE start_date
        end == IF end_date = NoDate THEN t ELSE end_date
        key == IF m = "" THEN PyNone ELSE m
        acc == CostFold(S, ScanIds(S, key, ScanDays(start, end)),
                        [fault |-> FALSE, total_cost |-> 0, total_requests |-> 0,
                         total_tokens |-> 0])
    IN  [fault |-> acc.fault,
         total_cost_usd |-> acc.total_cost,
         cost_per_request |-> Rate(acc.total_cost, acc.total_requests),
         cost_per_token |-> Rate(acc.total_cost, acc.total_tokens),
         requests_count |-> acc.total_requests,
         tokens_count |-> acc.total_tokens,
         period_start |-> start, period_end |-> end]

\* start_time <= request_time <= end_time
InRangeHalfOpen(start, request_time, end) == start <= request_time /\ request_time < end

InRange(start, request_time, end) == start <= request_time /\ request_time <= end

\* the loop body of get_performance_metrics and get_error_summary: the
\* stored dicts with start_time <= request_time <= end_time, in scan order
RECURSIVE WindowFold(_, _, _, _, _)
WindowFold(S, ids, start, end, acc) ==
    IF ids = <<>> THEN acc
    ELSE LET data == Get(S.requests, Head(ids))
             next == IF ~Found(data) THEN acc
                     ELSE IF data = <<>> THEN [acc EXCEPT !.fault = TRUE]
                     ELSE IF InRange(start, FromIsoformat(data[1].timestamp), end)
                          THEN [acc EXCEPT !.requests = Append(@, data[1])]
                          ELSE acc
         IN  WindowFold(S, Tail(ids), start, end, next)

\* sorted(latencies)
RECURSIVE Insert(_, _)
Insert(x, sorted) ==
    IF sorted = <<>> THEN <<x>>
    ELSE IF x <= Head(sorted) THEN <<x>> \o sorted
    ELSE <<Head(sorted)>> \o Insert(x, Tail(sorted))

RECURSIVE Sorted(_)
Sorted(xs) == IF xs = <<>> THEN <<>> ELSE Insert(Head(xs), Sorted(Tail(xs)))

RECURSIVE SeqSum(_)
SeqSum(xs) == IF xs = <<>> THEN 0 ELSE Head(xs) + SeqSum(Tail(xs))

\* the 1-based rank floor(0.95 * n) + 1 used as an index
P95IndexOneBased(n) == ((n * 95) \div 100) + 1

\* the 0-based index ceil(0.95 * n) - 1
P95IndexRankBelow(n) == ((n * 95 + 99) \div 100) - 1

\* int(len(latencies) * 0.95), a 0-based index
P95Index(n) == (n * 95) \div 100

\* what get_performance_metrics returns for the dicts it collected; an index
\* outside sorted(latencies) raises IndexError (fault)
PerformanceResult(reqs, hours, fault) ==
    LET n == Len(reqs)
        latencies == [i \in 1 .. n |-> reqs[i].latency_ms]
        successes == [i \in 1 .. n |-> IF reqs[i].success THEN 1 ELSE 0]
    IN  IF n = 0
        THEN [fault |-> fault, avg_latency_ms |-> Zero, success_rate |-> Zero,
              requests_per_hour |-> Zero, total_requests |-> 0]
        ELSE IF P95Index(n) + 1 \notin 1 .. n
        THEN [fault |-> TRUE, error |-> "IndexError", total_requests |-> n]
        ELSE [fault |-> fault,
              avg_latency_ms |-> <<SeqSum(latencies), n>>,
              success_rate |-> <<SeqSum(successes), n>>,
              requests_per_hour |-> <<n, hours>>,
              total_requests |-> n,
              min_latency_ms |-> Sorted(latencies)[1],
              max_latency_ms |-> Sorted(latencies)[n],
              p95_latency_ms |-> Sorted(latencies)[P95Index(n) + 1]]

\* get_performance_metrics(model_name, hours) called at time t
GetPerformanceMetrics(S, t, m, hours) ==
    LET end_time == t
        start_time == t - hours
        key == IF m = "" THEN PyNone ELSE m
        acc == WindowFold(S, ScanIds(S, key, ScanDays(start_time, end_time)),
                          start_time, end_time, [fault |-> FALSE, requests |-> <<>>])
    IN  PerformanceResult(acc.requests, hours, acc.fault)

\* get_error_summary(hours) called at time t; error_types maps each message
\* (None included) to the number of errors carrying it
GetErrorSummary(S, t, hours) ==
    LET end_time == t
        start_time == t - hours
        acc == WindowFold(S, ScanIds(S, PyNone, ScanDays(start_time, end_time)),
                          start_time, end_time, [fault |-> FALSE, requests |-> <<>>])
        errors == SelectSeq(acc.requests, LAMBDA r : ~r.success)
        msgs == {errors[i].error_message : i \in 1 .. Len(errors)}
    IN  [fault |-> acc.fault,
         total_errors |-> Len(errors),
         error_types |-> [msg \in msgs |->
                            Cardinality({i \in 1 .. Len(errors) :
                                           errors[i].error_message = msg})],
         error_rate |-> <<Len(errors),
                          IF Len(errors) + 100 > 1 THEN Len(errors) + 100 ELSE 1>>]

\* check_cost_alerts called at time t
CheckCostAlertsInclusive(S, t) ==
    LET daily_metrics == GetCostMetrics(S, t, PyNone, t - HoursPerDay, t) IN
    IF daily_metrics.total_cost_usd >= CostAlertThreshold
    THEN <<[type |-> "cost_alert", severity |-> "high", timestamp |-> t]>>
    ELSE <<>>

CheckCostAlerts(S, t) ==
    LET daily_metrics == GetCostMetrics(S, t, PyNone, t - HoursPerDay, t) IN
    IF daily_metrics.total_cost_usd > CostAlertThreshold
    THEN <<[type |-> "cost_alert", severity |-> "high", timestamp |-> t]>>
    ELSE <<>>

\* arguments of the calls
ModelArgs == {PyNone, "gpt-4"}
HourArgs == {1, 24}
WindowArgs(t) == {<<NoDate, NoDate>>, <<t - 2, t - 1>>}

GetCostMetricsCall(m, w) ==
    /\ ret' = [op |-> "get_cost_metrics", model_name |-> m, start_date |-> w[1],
               end_date |-> w[2],
               result |-> GetCostMetrics(Store, now, m, w[1], w[2])]
    /\ UNCHANGED mvars
    /\ UNCHANGED pvars

GetPerformanceMetricsCall(m, hours) ==
    /\ ret' = [op |-> "get_performance_metrics", model_name |-> m, hours |-> hours,
               result |-> GetPerformanceMetrics(Store, now, m, hours)]
    /\ UNCHANGED mvars
    /\ UNCHANGED pvars

GetErrorSummaryCall(hours) ==
    /\ ret' = [op |-> "get_error_summary", hours |-> hours,
               result |-> GetErrorSummary(Store, now, hours)]
    /\ UNCHANGED mvars
    /\ UNCHANGED pvars

\* a call that stays silent after a call that raised an alert
CheckCostAlertsCallSilencing ==
    /\ ret' = [op |-> "check_cost_alerts",
               result |-> IF ret.op = "check_cost_alerts" /\ ret.result # <<>>
                          THEN <<>> ELSE CheckCostAlerts(Store, now)]
    /\ UNCHANGED mvars
    /\ UNCHANGED pvars

CheckCostAlertsCall ==
    /\ ret' = [op |-> "check_cost_alerts", result |-> CheckCostAlerts(Store, now)]
    /\ UNCHANGED mvars
    /\ UNCHANGED pvars

Init ==
    /\ PInit
    /\ MInit
    /\ ret = [op |-> "init"]

NextPrompt ==
    \/ \E t \in Templates : CreatePrompt(t)
    \/ \E id \in PromptIds : ActivatePrompt(id)
    \/ \E t \in Templates, a \in ArgIds, b \in ArgIds, s \in Splits :
          StartAbTest(t, a, b, s)
    \/ \E t \in Templates, u \in UserArgs, d \in RandomDraws : GetAbTestPrompt(t, u, d)
    \/ \E id \in PromptIds : DeletePrompt(id)
    \/ \E t \in Templates : ExpireAbTest(t)
    \/ \E h \in [NonEmptyUsers -> HashVals] : Restart(h)

SpecPrompt == Init /\ [][NextPrompt]_vars

NextMon ==
    \/ \E d \in TickSteps : Tick(d)
    \/ \E id \in Ids, inp \in LogInputs, f \in 1 .. NoFail : LogRequest(id, inp, f)
    \/ \E m \in ModelArgs, w \in WindowArgs(now) : GetCostMetricsCall(m, w)
    \/ \E m \in ModelArgs, h \in HourArgs : GetPerformanceMetricsCall(m, h)
    \/ \E h \in HourArgs : GetErrorSummaryCall(h)
    \/ CheckCostAlertsCall

NextIngest ==
    \/ \E w \in Workers, id \in Ids, inp \in LogInputs : BeginSave(w, id, inp)
    \/ \E w \in Workers : SaveStep(w)
    \/ \E w \in Workers : SaveFail(w)
    \/ \E d \in TickSteps : Tick(d)

\* the monitor next to one prompt manager process
InitMon ==
    /\ Init
    /\ abEnabled
    /\ \A u \in NonEmptyUsers : userHash[u] = 0

SpecMon == InitMon /\ [][NextMon]_vars

SpecIngest == InitMon /\ [][NextIngest]_vars

\* calculate_cost called directly, next to log_request
CostModels == Models \cup {"claude-3-opus", "claude-3-sonnet", PyNone}
TokenArgs == {0, 1000, 3000}

CalculateCostCall(m, input_tokens, output_tokens) ==
    /\ ret' = [op |-> "calculate_cost", model_name |-> m,
               input_tokens |-> input_tokens, output_tokens |-> output_tokens,
               result |-> CalculateCost(m, input_tokens, output_tokens)]
    /\ UNCHANGED mvars
    /\ UNCHANGED pvars

NextCost ==
    \/ \E m \in CostModels, i \in TokenArgs, o \in TokenArgs : CalculateCostCall(m, i, o)
    \/ \E id \in Ids, inp \in LogInputs : LogRequest(id, inp, NoFail)

SpecCost == InitMon /\ [][NextCost]_vars

\* the metrics of a window given by the latencies of its records
LatencyVals == {100, 200, 300}
Ramp(n) == [i \in 1 .. n |-> 100 * i]
RampDown(n) == [i \in 1 .. n |-> 100 * (n + 1 - i)]
SampleLists ==
    UNION {[1 .. n -> LatencyVals] : n \in 0 .. MaxSamples}
      \cup {Ramp(n) : n \in 0 .. MaxRamp}
      \cup {RampDown(n) : n \in 0 .. MaxRamp}

InitPerf ==
    /\ PInit
    /\ MInit
    /\ abEnabled
    /\ \A u \in NonEmptyUsers : userHash[u] = 0
    /\ \E lat \in SampleLists : ret = [op |-> "latencies", latencies |-> lat]

PerformanceOfWindow(hours) ==
    /\ ret.op = "latencies"
    /\ ret' = [op |-> "performance", latencies |-> ret.latencies, hours |-> hours,
               result |-> PerformanceResult(
                   [i \in 1 .. Len(ret.latencies) |->
                      [latency_ms |-> ret.latencies[i], success |-> TRUE]],
                   hours, FALSE)]
    /\ UNCHANGED mvars
    /\ UNCHANGED pvars

NextPerf == \E h \in HourArgs : PerformanceOfWindow(h)

SpecPerf == InitPerf /\ [][NextPerf]_vars

\* ------------------------------------------------ claims, prompt manager

\* C1: with an unchanged active assignment (no start_ab_test, no expiry, no
\* prompt deletion in between), two calls get_ab_test_prompt(name, user_id)
\* with the same non-empty user_id return the same variant.
StickyAssignment ==
    [][(/\ assigned # <<>>
        /\ assigned' # <<>>
        /\ assigned'[1].name = assigned[1].name
        /\ assigned'[1].user = assigned[1].user)
       => assigned'[1].prompt_id = assigned[1].prompt_id]_vars

\* C2: with an active assignment, traffic_split 0 selects variant A and
\* traffic_split 1 selects variant B, for every user_id and without one; what
\* is returned is get_prompt of the selected id.
SplitBoundary ==
    (ret.op = "get_ab_test_prompt" /\ ret.branch = "test") =>
        LET cfg == abTest[ret.name][1] IN
        /\ cfg.traffic_split = 0 =>
              ret.prompt_id = <<cfg.prompt_a>> /\ ret.prompt = GetPrompt(prompts, cfg.prompt_a)
        /\ cfg.traffic_split = 100 =>
              ret.prompt_id = <<cfg.prompt_b>> /\ ret.prompt = GetPrompt(prompts, cfg.prompt_b)

SplitBoundaryWitness ==
    /\ ret.op = "get_ab_test_prompt"
    /\ ret.branch = "test"
    /\ ret.user = "u1"
    /\ userHash["u1"] = 0
    /\ abTest[ret.name][1].traffic_split = 0
    /\ abTest[ret.name][1].prompt_a # abTest[ret.name][1].prompt_b
    /\ ret.prompt = <<abTest[ret.name][1].prompt_a>>

\* C3: a start_ab_test whose traffic_split is outside [0,1] or one of whose
\* variant ids is empty fails (does not report success) and stores nothing.
StartRejectsInvalid ==
    (ret.op = "start_ab_test" /\ ret.invalid) => (ret.result # "True" /\ ~ret.stored)

\* C4: the store holds, per experiment name, exactly the configuration of the
\* most recent successful start_ab_test that has not expired (variant A,
\* variant B, traffic_split, active = TRUE), nothing of an earlier one.
LastWriteWins ==
    /\ \A t \in Templates : abTest[t] = lastStart[t]
    /\ (ret.op = "start_ab_test" /\ ret.result = "True") =>
          abTest[ret.name] = <<[prompt_a |-> ret.prompt_a, prompt_b |-> ret.prompt_b,
                                traffic_split |-> ret.traffic_split, active |-> TRUE]>>

LastWriteWinsWitness ==
    /\ ret.op = "start_ab_test"
    /\ ret.result = "True"
    /\ ret.replaced
    /\ abTest[ret.name][1].prompt_a = ret.prompt_a


\* ------------------------------------------------------- claims, monitor
InSeq(x, xs) == \E i \in 1 .. Len(xs) : xs[i] = x
Count(x, xs) == Cardinality({i \in 1 .. Len(xs) : xs[i] = x})

\* C5: after a log_request none of whose store operations failed, the record
\* is stored under its request_id with a 24-hour expiry, and its id is in the
\* list of its day and in the list of its model and day, each with a 30-day
\* expiry.
IngestStored ==
    (ret.op = "log_request" /\ ret.failAt = NoFail) =>
        LET r == ret.request
            d == Day(r.timestamp)
            mk == <<r.model_name, d>>
        IN  /\ requests[r.request_id] # <<>>
            /\ requests[r.request_id][1].data.request_id = r.request_id
            /\ requests[r.request_id][1].exp = r.timestamp + RequestTTL
            /\ InSeq(r.request_id, dayList[d].items)
            /\ dayList[d].exp = r.timestamp + IndexTTL
            /\ InSeq(r.request_id, modelList[mk].items)
            /\ modelList[mk].exp = r.timestamp + IndexTTL

IngestStoredWitness ==
    /\ ret.op = "log_request"
    /\ ret.failAt = NoFail
    /\ Len(dayList[Day(now)].items) = 2
    /\ Len(modelList[<<ret.request.model_name, Day(now)>>].items) = 1
    /\ requests[ret.request.request_id][1].exp = now + RequestTTL

\* C6: when a store operation fails during ingestion, log_request passes the
\* failure on to its caller and does not return normally.
IngestPropagatesFailure ==
    (ret.op = "log_request" /\ ret.failAt # NoFail) => ret.outcome = "StorageUnavailable"

\* the record a reader of request:<id> gets: the stored dict with its
\* timestamp parsed by datetime.fromisoformat
ReadBack(id) ==
    IF Get(requests, id) = <<>> THEN <<>>
    ELSE <<[Get(requests, id)[1] EXCEPT !.timestamp = FromIsoformat(@)]>>

\* C7 as stated: after an ingest whose store operations all succeeded, reading request:<request_id> yields a
\* record equal in every field to the one ingested.
RoundTrip ==
    (ret.op = "log_request" /\ ret.failAt = NoFail) =>
        ReadBack(ret.request.request_id) = <<ret.request>>

\* C7 as amended: after such an ingest the stored timestamp is the string str(timestamp), which
\* parses back to the ingested timestamp; every other field but metadata is
\* equal; metadata is equal when it holds only JSON-native values.
RoundTripJsonNative ==
    (ret.op = "log_request" /\ ret.failAt = NoFail) =>
        LET r == ret.request
            got == Get(requests, r.request_id)
        IN  /\ got # <<>>
            /\ got[1].timestamp = <<"str", r.timestamp>>
            /\ FromIsoformat(got[1].timestamp) = r.timestamp
            /\ \A f \in DOMAIN r \ {"timestamp", "metadata"} : got[1][f] = r[f]
            /\ r.metadata \in {"empty", "plain"} => got[1].metadata = r.metadata
            /\ r.metadata \in {"empty", "plain"} => ReadBack(r.request_id) = <<r>>

RoundTripWitness ==
    /\ ret.op = "log_request"
    /\ ret.failAt = NoFail
    /\ ret.request.metadata = "plain"
    /\ ret.request.success
    /\ ReadBack(ret.request.request_id) = <<ret.request>>

\* C8: when the store operations of several _save_request calls with
\* distinct request ids interleave, then once no call is in progress every
\* call that ran to its end has its id exactly once in its day list and
\* exactly once in its (model, day) list, and its own content under its key
\* (as long as the record has not expired).
ConcurrentIngestIndependent ==
    (\A w \in Workers : pc[w] \in {0, SaveDone, SaveFailed}) =>
        \A w \in Workers :
            (/\ pc[w] = SaveDone
             /\ \A v \in Workers \ {w} :
                    wreq[v] = <<>> \/ wreq[v][1].request_id # wreq[w][1].request_id
             /\ requests[wreq[w][1].request_id] # <<>>)
            => LET r == wreq[w][1]
                   d == Day(r.timestamp)
               IN  /\ requests[r.request_id][1].data = JsonDict(r)
                   /\ Count(r.request_id, dayList[d].items) = 1
                   /\ Count(r.request_id, modelList[<<r.model_name, d>>].items) = 1

ConcurrentIngestWitness ==
    /\ \A w \in Workers : pc[w] = SaveDone
    /\ \E v, w \in Workers :
        /\ wreq[v][1].request_id # wreq[w][1].request_id
        /\ wreq[v][1].model_name = wreq[w][1].model_name
        /\ wreq[v][1].timestamp = now
        /\ wreq[w][1].timestamp = now
        /\ dayList[Day(now)].items = <<wreq[v][1].request_id, wreq[w][1].request_id>>
        /\ modelList[<<wreq[v][1].model_name, Day(now)>>].items =
              <<wreq[w][1].request_id, wreq[v][1].request_id>>

\* an index list holds an id whose record has expired
Dangling(id) ==
    /\ requests[id] = <<>>
    /\ \/ \E d \in Days : InSeq(id, dayList[d].items)
       \/ \E k \in Models \X Days : InSeq(id, modelList[k].items)

\* the store without the index entries of expired records
LiveOnly ==
    LET live(xs) == SelectSeq(xs, LAMBDA i : requests[i] # <<>>) IN
    [requests |-> requests,
     dayList |-> [d \in Days |-> [dayList[d] EXCEPT !.items = live(@)]],
     modelList |-> [k \in Models \X Days |-> [modelList[k] EXCEPT !.items = live(@)]]]

\* C9: when an index list holds the id of an expired record, get_cost_metrics,
\* get_performance_metrics and get_error_summary end without fault and
\* return what they return over the live records alone.
DanglingSkipped ==
    (\E id \in Ids : Dangling(id)) =>
        /\ ret.op = "get_cost_metrics" =>
             /\ ~ret.result.fault
             /\ ret.result = GetCostMetrics(LiveOnly, now, ret.model_name,
                                            ret.start_date, ret.end_date)
        /\ ret.op = "get_performance_metrics" =>
             /\ ~ret.result.fault
             /\ ret.result = GetPerformanceMetrics(LiveOnly, now, ret.model_name, ret.hours)
        /\ ret.op = "get_error_summary" =>
             /\ ~ret.result.fault
             /\ ret.result = GetErrorSummary(LiveOnly, now, ret.hours)

DanglingSkippedWitness ==
    /\ \E id \in Ids : Dangling(id) /\ InSeq(id, dayList[Day(now) - 1].items)
    /\ ret.op = "get_performance_metrics"
    /\ ret.hours = 24
    /\ ret.result.total_requests = 1

\* the live records whose timestamp lies in the window [start, end] (of the
\* model, when one is given)
InWindow(m, start, end) ==
    {i \in Ids : /\ requests[i] # <<>>
                 /\ start <= FromIsoformat(requests[i][1].data.timestamp)
                 /\ FromIsoformat(requests[i][1].data.timestamp) <= end
                 /\ m \notin {PyNone, ""} => requests[i][1].data.model_name = m}

RECURSIVE SumCost(_)
SumCost(ids) ==
    IF ids = {} THEN 0
    ELSE LET i == CHOOSE x \in ids : TRUE
         IN  requests[i][1].data.cost_usd + SumCost(ids \ {i})

RECURSIVE SumTokens(_)
SumTokens(ids) ==
    IF ids = {} THEN 0
    ELSE LET i == CHOOSE x \in ids : TRUE
         IN  requests[i][1].data.input_tokens + requests[i][1].data.output_tokens
               + SumTokens(ids \ {i})

\* C10: as long as no store operation has failed, get_cost_metrics returns
\* the number, the summed cost and the summed tokens of exactly the live
\* records whose timestamp lies in its window.
CostWindowExact ==
    (ret.op = "get_cost_metrics" /\ failures = 0) =>
        LET win == InWindow(ret.model_name, ret.result.period_start,
                            ret.result.period_end)
        IN  /\ ret.result.requests_count = Cardinality(win)
            /\ ret.result.total_cost_usd = SumCost(win)
            /\ ret.result.tokens_count = SumTokens(win)

\* C11: as long as no store operation has failed, every live record whose
\* timestamp lies in the trailing window [now - hours, now] is counted in
\* total_requests of get_performance_metrics(hours), at whatever time of day
\* the call is made.
TrailingWindowCounted ==
    (ret.op = "get_performance_metrics" /\ failures = 0) =>
        ret.result.total_requests >=
            Cardinality(InWindow(ret.model_name, now - ret.hours, now))

\* C12: p95_latency_ms is the element at 0-based index floor(0.95 * n) of
\* the ascending-sorted list of the n latencies of the window: it is one of
\* the latencies, at most floor(0.95 * n) latencies are smaller and more than
\* floor(0.95 * n) are smaller or equal; for 100, 200, ..., 2000 it is 2000.
P95NearestRank ==
    (ret.op = "performance" /\ ret.latencies # <<>>) =>
        LET lat == ret.latencies
            n == Len(lat)
            k == (19 * n) \div 20
            v == ret.result.p95_latency_ms
        IN  /\ \E i \in 1 .. n : lat[i] = v
            /\ Cardinality({i \in 1 .. n : lat[i] < v}) <= k
            /\ Cardinality({i \in 1 .. n : lat[i] <= v}) > k
            /\ n = 20 /\ (\A i \in 1 .. n : \E j \in 1 .. n : lat[j] = 100 * i)
                 => v = 2000

P95NearestRankWitness ==
    /\ ret.op = "performance"
    /\ Len(ret.latencies) = 20
    /\ ret.latencies[1] = 2000
    /\ ret.latencies[20] = 100
    /\ ret.result.p95_latency_ms = 2000

IndexedOnce ==
    /\ failures = 0
    /\ \A id \in Ids :
         /\ Cardinality({d \in Days : InSeq(id, dayList[d].items)}) <= 1
         /\ \A d \in Days : Count(id, dayList[d].items) <= 1

\* C14: check_cost_alerts returns exactly one alert (cost_alert, high) when
\* total_cost_usd of the trailing 24 hours is strictly greater than the
\* threshold and no alert otherwise, none when the two are equal; with every
\* record indexed once that total is the cost of the live records of the
\* trailing 24 hours.
CostAlertStrict ==
    ret.op = "check_cost_alerts" =>
        LET total == GetCostMetrics(Store, now, PyNone, NoDate, NoDate).total_cost_usd
        IN  /\ total > CostAlertThreshold =>
                /\ Len(ret.result) = 1
                /\ ret.result[1].type = "cost_alert"
                /\ ret.result[1].severity = "high"
            /\ total <= CostAlertThreshold => ret.result = <<>>
            /\ IndexedOnce =>
                total = SumCost(InWindow(PyNone, now - HoursPerDay, now))

CostAlertStrictWitness ==
    /\ ret.op = "check_cost_alerts"
    /\ ret.result = <<>>
    /\ IndexedOnce
    /\ SumCost(InWindow(PyNone, now - HoursPerDay, now)) = CostAlertThreshold

\* cost_per_1k_tokens of the rate table, in micro-USD
RateTable ==
    [m \in {"gpt-4", "gpt-3.5-turbo", "claude-3-opus", "claude-3-sonnet"} |->
        CASE m = "gpt-4" -> 30000
          [] m = "gpt-3.5-turbo" -> 2000
          [] m = "claude-3-opus" -> 15000
          [] m = "claude-3-sonnet" -> 3000]

RateOf(m) == IF m \in DOMAIN RateTable THEN RateTable[m] ELSE RateTable["gpt-4"]

\* C15: the record log_request creates has cost_usd = ((input_tokens +
\* output_tokens) / 1000) * rate(model_name), with the default entry of the
\* rate table for a model that is not in it; calculate_cost returns the same
\* product, and calculate_cost(model, 1000, 0) is the model's rate.
CostFormula ==
    /\ ret.op = "log_request" =>
         ret.request.cost_usd =
            ((ret.request.input_tokens + ret.request.output_tokens) \div 1000)
               * RateOf(ret.request.model_name)
    /\ ret.op = "calculate_cost" =>
         /\ ret.result = ((ret.input_tokens + ret.output_tokens) \div 1000)
                            * RateOf(ret.model_name)
         /\ (ret.input_tokens = 1000 /\ ret.output_tokens = 0) =>
                ret.result = RateOf(ret.model_name)

CostFormulaWitness ==
    /\ ret.op = "calculate_cost"
    /\ ret.model_name = "other"
    /\ ret.input_tokens = 1000
    /\ ret.output_tokens = 0
    /\ ret.result = 30000
    /\ \E i \in Ids : requests[i] # <<>> /\ requests[i][1].data.cost_usd > 0

\* the store after the step
StoreNext == [requests |-> requests', dayList |-> dayList', modelList |-> modelList']

\* the place at which a scan of the list first enumerates x
FirstIndex(x, xs) == CHOOSE i \in 1 .. Len(xs) : xs[i] = x /\ \A j \in 1 .. i - 1 : xs[j] # x

RecordImmutable ==
    [][\A id \in Ids :
          (requests[id] # <<>> /\ requests'[id] # <<>>) =>
              requests'[id][1].data = requests[id][1].data]_vars

\* C18: every record in the store has an error_message if and only if its
\* success flag is false.
ErrorMessageIffFailure ==
    \A id \in Ids :
        requests[id] # <<>> =>
            (requests[id][1].data.error_message # PyNone
                <=> ~requests[id][1].data.success)

\* C19: when no assignment is stored for the experiment name, or the stored
\* one is not active, get_ab_test_prompt returns what get_active_prompt(name)
\* returns, for every user_id: the ACTIVE prompt of the template, or None
\* when the template has none.
FallbackToActive ==
    (/\ ret.op = "get_ab_test_prompt"
     /\ abTest[ret.name] = <<>> \/ ~abTest[ret.name][1].active) =>
        LET active == {id \in PromptIds :
                          TemplateOf(id) = ret.name /\ prompts[id] = ACTIVE}
        IN  /\ ret.branch = "fallback"
            /\ ret.prompt = GetActivePrompt(prompts, ret.name)
            /\ active = {} => ret.prompt = <<>>
            /\ active # {} => ret.prompt # <<>> /\ ret.prompt[1] \in active

FallbackToActiveWitness ==
    /\ ret.op = "get_ab_test_prompt"
    /\ ret.user = "u1"
    /\ abTest[ret.name] = <<>>
    /\ ret.prompt = <<(<<ret.name, 2>>)>>
    /\ prompts[<<ret.name, 1>>] = TESTING

BothTesting ==
    (ret.op = "start_ab_test" /\ ret.result = "True") =>
        /\ prompts[ret.prompt_a] = TESTING
        /\ prompts[ret.prompt_b] = TESTING

BothTestingWitness ==
    /\ ret.op = "start_ab_test"
    /\ ret.result = "True"
    /\ ret.prompt_a # ret.prompt_b
    /\ ret.before = <<DEPRECATED, ACTIVE>>
    /\ prompts[ret.prompt_a] = TESTING
    /\ prompts[ret.prompt_b] = TESTING

\* C22: at most one prompt per template name is ACTIVE; right after an
\* activate_prompt(p) that returned True, get_active_prompt of p's template
\* returns p and every other prompt of the template that was ACTIVE before
\* is DEPRECATED.
ActivateExclusive ==
    [][/\ \A t \in Templates :
            Cardinality({id \in PromptIds :
                            TemplateOf(id) = t /\ prompts'[id] = ACTIVE}) <= 1
       /\ (ret'.op = "activate_prompt" /\ ret'.result = TRUE) =>
            /\ GetActivePrompt(prompts', TemplateOf(ret'.prompt_id)) = <<ret'.prompt_id>>
            /\ prompts'[ret'.prompt_id] = ACTIVE
            /\ \A q \in PromptIds \ {ret'.prompt_id} :
                  (TemplateOf(q) = TemplateOf(ret'.prompt_id) /\ prompts[q] = ACTIVE)
                      => prompts'[q] = DEPRECATED]_vars

ActivateExclusiveWitness ==
    /\ ret.op = "activate_prompt"
    /\ ret.result = TRUE
    /\ prompts[ret.prompt_id] = ACTIVE
    /\ \E q \in PromptIds \ {ret.prompt_id} :
          TemplateOf(q) = TemplateOf(ret.prompt_id) /\ prompts[q] = DEPRECATED

\* C23: with every record indexed once, get_error_summary returns
\* total_errors = the number of live records of the window [now - hours, now]
\* with success = false, error_types = the number of those records per
\* error_message, and error_rate = total_errors / (total_errors + 100).
ErrorSummaryExact ==
    (ret.op = "get_error_summary" /\ IndexedOnce) =>
        LET failed == {i \in InWindow(PyNone, now - ret.hours, now) :
                          ~requests[i][1].data.success}
            msgs == {requests[i][1].data.error_message : i \in failed}
        IN  /\ ret.result.total_errors = Cardinality(failed)
            /\ ret.result.error_types =
                 [msg \in msgs |->
                    Cardinality({i \in failed : requests[i][1].data.error_message = msg})]
            /\ ret.result.error_rate =
                 <<ret.result.total_errors, ret.result.total_errors + 100>>

\* the live records of the window [start, end] that lie in a day the scan
\* from start to end reads
Enumerated(m, start, end) ==
    {i \in InWindow(m, start, end) :
        InSeq(Day(FromIsoformat(requests[i][1].data.timestamp)), ScanDays(start, end))}

\* C24 as stated: the window is half-open: with every record indexed once,
\* get_performance_metrics and get_error_summary count no record whose
\* timestamp equals the window end.
WindowHalfOpen ==
    IndexedOnce =>
        /\ ret.op = "get_performance_metrics" =>
             ret.result.total_requests <=
                Cardinality(InWindow(ret.model_name, now - ret.hours, now - 1))
        /\ ret.op = "get_error_summary" =>
             ret.result.total_errors <=
                Cardinality({i \in InWindow(PyNone, now - ret.hours, now - 1) :
                                ~requests[i][1].data.success})

\* C24 as amended: the window is closed: with every record indexed once, of
\* the live records the scan enumerates both count exactly those with
\* start <= timestamp <= end, a record whose timestamp equals the window
\* start or the window end included.
WindowClosed ==
    IndexedOnce =>
        /\ ret.op = "get_performance_metrics" =>
             ret.result.total_requests =
                Cardinality(Enumerated(ret.model_name, now - ret.hours, now))
        /\ ret.op = "get_error_summary" =>
             ret.result.total_errors =
                Cardinality({i \in Enumerated(PyNone, now - ret.hours, now) :
                                ~requests[i][1].data.success})

WindowClosedWitness ==
    /\ IndexedOnce
    /\ ret.op = "get_performance_metrics"
    /\ ret.hours = 1
    /\ ret.result.total_requests = 2
    /\ \E i, j \in Ids :
         /\ requests[i] # <<>> /\ FromIsoformat(requests[i][1].data.timestamp) = now
         /\ requests[j] # <<>> /\ FromIsoformat(requests[j][1].data.timestamp) = now - 1

QueryOps == {"get_cost_metrics", "get_performance_metrics", "get_error_summary",
             "check_cost_alerts"}

CountedOnce ==
    LET live == {i \in Ids : requests[i] # <<>>}
    IN  /\ ret.op = "get_cost_metrics" => ret.result.requests_count <= Cardinality(live)
        /\ ret.op = "get_performance_metrics" =>
              ret.result.total_requests <= Cardinality(live)

\* C27: as long as no store operation has failed, every live record has its
\* request_id in the list of its timestamp's day and in the list of its
\* model and that day.
LiveRecordIndexed ==
    failures = 0 =>
        \A i \in Ids :
            requests[i] # <<>> =>
                LET r == requests[i][1].data
                    d == Day(FromIsoformat(r.timestamp))
                IN  /\ r.request_id = i
                    /\ InSeq(i, dayList[d].items)
                    /\ InSeq(i, modelList[<<r.model_name, d>>].items)

LiveRecordIndexedWitness ==
    /\ failures = 0
    /\ ret.op = "tick"
    /\ \E i, j \in Ids :
         /\ requests[i] # <<>>
         /\ InSeq(i, dayList[Day(now)].items)
         /\ Dangling(j)
         /\ InSeq(j, dayList[Day(now) - 1].items)

\* the number of live records a scan of the list enumerates
LiveCount(xs) == Cardinality({k \in 1 .. Len(xs) : requests[xs[k]] # <<>>})

RECURSIVE ModelLiveCount(_, _)
ModelLiveCount(ms, d) ==
    IF ms = {} THEN 0
    ELSE LET m == CHOOSE x \in ms : TRUE
         IN  LiveCount(modelList[<<m, d>>].items) + ModelLiveCount(ms \ {m}, d)

RECURSIVE ModelCostSum(_, _)
ModelCostSum(ms, field) ==
    IF ms = {} THEN 0
    ELSE LET m == CHOOSE x \in ms : TRUE
         IN  GetCostMetrics(Store, now, m, NoDate, NoDate)[field]
               + ModelCostSum(ms \ {m}, field)

ListsAgree ==
    /\ \A d \in Days : LiveCount(dayList[d].items) = ModelLiveCount(Models, d)
    /\ \A f \in {"requests_count", "total_cost_usd", "tokens_count"} :
          GetCostMetrics(Store, now, PyNone, NoDate, NoDate)[f] = ModelCostSum(Models, f)

FailedStartNoEffect ==
    [][(ret'.op = "start_ab_test" /\ ret'.result = "False") =>
          /\ prompts' = prompts
          /\ abTest' = abTest]_vars

FailedStartNoEffectWitness ==
    /\ ret.op = "start_ab_test"
    /\ ret.result = "False"
    /\ abEnabled
    /\ abTest[ret.name] # <<>>
    /\ \E id \in PromptIds : prompts[id] = ACTIVE
    /\ \E id \in PromptIds : prompts[id] = Absent

\* C30: for n >= 1 latencies the p95 index floor(0.95 * n) lies in 0 .. n - 1:
\* the metrics are computed without indexing outside the sorted list, and
\* min_latency_ms <= p95_latency_ms <= max_latency_ms, min and max being the
\* smallest and the largest latency.
P95InRange ==
    (ret.op = "performance" /\ ret.latencies # <<>>) =>
        LET lat == ret.latencies
            n == Len(lat)
        IN  /\ ~ret.result.fault
            /\ (19 * n) \div 20 \in 0 .. n - 1
            /\ ret.result.min_latency_ms <= ret.result.p95_latency_ms
            /\ ret.result.p95_latency_ms <= ret.result.max_latency_ms
            /\ \A i \in 1 .. n : /\ ret.result.min_latency_ms <= lat[i]
                                 /\ lat[i] <= ret.result.max_latency_ms

P95InRangeWitness ==
    /\ ret.op = "performance"
    /\ Len(ret.latencies) = 1
    /\ ret.result.min_latency_ms = ret.latencies[1]
    /\ ret.result.p95_latency_ms = ret.latencies[1]
    /\ ret.result.max_latency_ms = ret.latencies[1]

====
